---- MODULE Spec2Model ----
(***************************************************************************)
(* Model of the fitness-data load pipeline: the CSV loaders (load_csv.py), *)
(* the JSON loader (load_fitness_json, load_json.py) and the merge         *)
(* (_combine, load_pipeline, data_load_pipeline.py).                       *)
(*                                                                         *)
(* Two specifications:                                                     *)
(*   Spec         one call of load_pipeline on files chosen at Init        *)
(*   SpecCombine  calls of _combine on two collections chosen at Init      *)
(***************************************************************************)
EXTENDS Integers, Sequences, FiniteSets, TLC

VARIABLES
    pd,           \* TRUE iff "import pandas" succeeded (module global pd is not None)
    pc,           \* position of the call being modelled
    prefer,       \* load_pipeline's prefer argument
    csv_file,     \* [kind -> state of the CSV file behind hr_csv / steps_csv / sleep_csv]
    json_file,    \* state of the file behind json_path
    csv_data,     \* load_pipeline's csv_data
    json_data,    \* load_pipeline's json_data
    result,       \* load_pipeline's out
    csv_df,       \* _combine's first argument
    json_df,      \* _combine's second argument
    out,          \* value returned by _combine(csv_df, json_df)
    out_swapped   \* value returned by _combine(json_df, csv_df)

vars == <<pd, pc, prefer, csv_file, json_file, csv_data, json_data, result,
          csv_df, json_df, out, out_swapped>>

-----------------------------------------------------------------------------
(* Bounds *)

\* longest CSV file (data rows) and longest JSON array read by the loaders
MaxRows == 2
\* longest collection handed to _combine directly
MaxRecords == 2

SeqsUpTo(S, n) == UNION {[1..k -> S] : k \in 0..n}

-----------------------------------------------------------------------------
(* Python / pandas values.  Every cell value is a tagged record, so values  *)
(* of different Python types are different values of the model.             *)

Str(s) == [t |-> "str", s |-> s]
Num(n) == [t |-> "num", n |-> n]
DateTime(m) == [t |-> "datetime", minute |-> m]
\* pandas' missing value (NaN in a numeric/object column, NaT in a datetime column)
NaN == [t |-> "nan"]

Kinds == <<"heart_rate", "steps", "sleep">>
KindSet == {Kinds[i] : i \in 1..Len(Kinds)}

\* The strings datetime.fromisoformat accepts, among the strings of the model,
\* with the instant each denotes (minutes after 2024-01-01 08:00).
IsoMinute(s) ==
    CASE s = "2024-01-01 08:00:00" -> 0
      [] s = "2024-01-01T08:00:00" -> 0
      [] s = "2024-01-01 08:01:00" -> 1
      [] s = "2024-01-01T08:01:00" -> 1
      [] OTHER -> -1

\* datetime.fromisoformat(ts): ok = FALSE stands for the ValueError/TypeError
fromisoformat(ts) ==
    IF ts.t = "str" /\ IsoMinute(ts.s) >= 0
    THEN [ok |-> TRUE, value |-> DateTime(IsoMinute(ts.s))]
    ELSE [ok |-> FALSE, value |-> ts]

\* Python truthiness of a cell value ("if ts:")
Truthy(v) ==
    CASE v.t = "str" -> v.s # ""
      [] v.t = "num" -> v.n # 0
      [] OTHER -> TRUE

-----------------------------------------------------------------------------
(* Collections: a plain list of dicts, or a pandas DataFrame.               *)

List(rows) == [df |-> FALSE, columns |-> {}, rows |-> rows]
DataFrame(cols, rows) == [df |-> TRUE, columns |-> cols, rows |-> rows]
\* pd.DataFrame()
EmptyFrame == DataFrame({}, <<>>)

\* DataFrame.empty: no rows or no columns
FrameEmpty(c) == c.rows = <<>> \/ c.columns = {}

\* df.reindex(columns=cols): a column the frame lacks is filled with NaN
reindex(rows, cols) ==
    [i \in 1..Len(rows) |->
        [c \in cols |-> IF c \in DOMAIN rows[i] THEN rows[i][c] ELSE NaN]]

\* pd.DataFrame(list_of_dicts): the columns are the keys met in the dicts
FrameOfDicts(dicts) ==
    LET cols == UNION {DOMAIN dicts[i] : i \in 1..Len(dicts)}
    IN  DataFrame(cols, reindex(dicts, cols))

\* pd.to_datetime(value, errors="coerce") on one cell
to_datetime(v) ==
    CASE v.t = "datetime" -> v
      [] v.t = "str" /\ IsoMinute(v.s) >= 0 -> DateTime(IsoMinute(v.s))
      [] OTHER -> NaN

\* df["timestamp"] = pd.to_datetime(df["timestamp"], errors="coerce")
CoerceTimestamps(rows) ==
    [i \in 1..Len(rows) |->
        [c \in DOMAIN rows[i] |->
            IF c = "timestamp" THEN to_datetime(rows[i][c]) ELSE rows[i][c]]]

-----------------------------------------------------------------------------
(* Input files.                                                             *)
(* A CSV file: state "none" (no path given), "missing" (no such file),      *)
(* "malformed" (reading it raises) or "rows" (a header and data rows, each  *)
(* row a function from the header's fields to the cell text).               *)

NoFile == [state |-> "none", rows |-> <<>>]
MissingFile == [state |-> "missing", rows |-> <<>>]
MalformedFile == [state |-> "malformed", rows |-> <<>>]
CsvOf(rows) == [state |-> "rows", rows |-> rows]

CsvHeader(kind) ==
    CASE kind = "heart_rate" -> {"timestamp", "heart_rate_bpm"}
      [] kind = "steps" -> {"timestamp", "steps", "cadence"}
      [] kind = "sleep" -> {"timestamp", "stage", "duration_min"}

RawCsvRows(kind) ==
    CASE kind = "heart_rate" ->
            { [timestamp |-> "2024-01-01 08:00:00", heart_rate_bpm |-> "72"],
              [timestamp |-> "not-a-date", heart_rate_bpm |-> "65"],
              [timestamp |-> "", heart_rate_bpm |-> "72"] }
      [] kind = "steps" ->
            { [timestamp |-> "2024-01-01 08:00:00", steps |-> "5", cadence |-> "5"],
              [timestamp |-> "not-a-date", steps |-> "3", cadence |-> "3"],
              [timestamp |-> "2024-01-01 08:01:00", steps |-> "3", cadence |-> ""] }
      [] kind = "sleep" ->
            { [timestamp |-> "2024-01-01 08:00:00", stage |-> "deep", duration_min |-> "5"],
              [timestamp |-> "not-a-date", stage |-> "light", duration_min |-> "5"],
              [timestamp |-> "", stage |-> "REM", duration_min |-> "5"] }

CsvFiles(kind) ==
    {NoFile, MissingFile, MalformedFile}
        \cup {CsvOf(rows) : rows \in SeqsUpTo(RawCsvRows(kind), MaxRows)}

\* JSON values: objects, arrays, numbers (Num) and strings (Str)
JObject(d) == [t |-> "object", d |-> d]
JArray(items) == [t |-> "array", items |-> items]

JsonKey(kind) ==
    CASE kind = "heart_rate" -> "heart_rate_data"
      [] kind = "steps" -> "step_data"
      [] kind = "sleep" -> "sleep_data"

\* entries of a JSON array: records, and one entry that is not a record
\* (confidence is held in tenths: Num(9) is 0.9)
JsonEntries(kind) ==
    CASE kind = "heart_rate" ->
            { JObject([timestamp |-> Str("2024-01-01T08:00:00"), bpm |-> Num(72),
                       confidence |-> Num(9)]),
              JObject([timestamp |-> Str("not-a-date"), bpm |-> Num(65)]),
              JObject([timestamp |-> Str("2024-01-01T08:01:00"), bpm |-> Num(65),
                       heart_rate_bpm |-> Num(72)]),
              Num(1) }
      [] kind = "steps" ->
            { JObject([timestamp |-> Str("2024-01-01T08:00:00"), steps |-> Num(5),
                       cadence |-> Num(5)]),
              JObject([timestamp |-> Str("not-a-date"), steps |-> Num(3)]),
              JObject([timestamp |-> Str("2024-01-01T08:01:00"), steps |-> Num(3),
                       bpm |-> Num(72)]),
              Num(1) }
      [] kind = "sleep" ->
            { JObject([timestamp |-> Str("2024-01-01T08:00:00"), stage |-> Str("deep"),
                       duration_min |-> Num(5)]),
              JObject([timestamp |-> Str("not-a-date"), stage |-> Str("light"),
                       duration_min |-> Num(5)]),
              JObject([timestamp |-> Str("2024-01-01T08:01:00"), stage |-> Str("REM"),
                       duration_min |-> Num(5), bpm |-> Num(72)]),
              Num(1) }

\* A JSON file: state "none", "missing", "malformed" (json.load raises) or
\* "valid" with the parsed top-level value.
JsonOf(value) == [state |-> "valid", value |-> value]
NoJson == [state |-> "none", value |-> Num(0)]
MissingJson == [state |-> "missing", value |-> Num(0)]
MalformedJson == [state |-> "malformed", value |-> Num(0)]

\* the files whose only array (if any) is the one of `kind`
JsonFiles(kind) ==
    {NoJson, MissingJson, MalformedJson, JsonOf(JArray(<<>>)), JsonOf(JObject([k \in {} |-> JArray(<<>>)]))}
        \cup {JsonOf(JObject([k \in {JsonKey(kind)} |-> JArray(items)])) :
                items \in SeqsUpTo(JsonEntries(kind), MaxRows)}

-----------------------------------------------------------------------------
(* load_csv.py *)

\* the collection both loaders return for "nothing": pd.DataFrame() or []
EmptyCollection == IF pd THEN EmptyFrame ELSE List(<<>>)

\* csv.DictReader: every cell is a str
DictReaderRow(raw) == [f \in DOMAIN raw |-> Str(raw[f])]

\* the fallback loop body: parse the timestamp, keep the text when parsing raises
NormalizeCsvRow(r) ==
    IF "timestamp" \in DOMAIN r /\ Truthy(r["timestamp"]) /\ fromisoformat(r["timestamp"]).ok
    THEN [r EXCEPT !["timestamp"] = fromisoformat(r["timestamp"]).value]
    ELSE r

\* pd.read_csv's type inference on the cell texts of the model
IsNumeric(s) == s \in {"3", "5", "65", "72"}
ParseInt(s) ==
    CASE s = "3" -> 3 [] s = "5" -> 5 [] s = "65" -> 65 [] s = "72" -> 72 [] OTHER -> 0

\* pd.read_csv on a readable file: a column of numbers (and blanks) becomes
\* numeric, blanks become NaN, anything else stays text
read_csv(rows) ==
    LET numeric(c) == \A i \in 1..Len(rows) : rows[i][c] = "" \/ IsNumeric(rows[i][c])
        cell(c, s) == IF s = "" THEN NaN
                      ELSE IF numeric(c) THEN Num(ParseInt(s)) ELSE Str(s)
    IN  [i \in 1..Len(rows) |-> [c \in DOMAIN rows[i] |-> cell(c, rows[i][c])]]

\* the body shared by load_heart_rate_csv, load_steps_csv and load_sleep_csv
LoadCsv(kind, file) ==
    IF pd
    THEN IF file.state # "rows"
         THEN EmptyFrame
         ELSE DataFrame(CsvHeader(kind),
                        IF "timestamp" \in CsvHeader(kind)
                        THEN CoerceTimestamps(read_csv(file.rows))
                        ELSE read_csv(file.rows))
    ELSE IF file.state # "rows"
         THEN List(<<>>)
         ELSE List([i \in 1..Len(file.rows) |-> NormalizeCsvRow(DictReaderRow(file.rows[i]))])

load_heart_rate_csv(file) == LoadCsv("heart_rate", file)
load_steps_csv(file) == LoadCsv("steps", file)
load_sleep_csv(file) == LoadCsv("sleep", file)

\* load_all_csv: a loader is called only for a path that is given
load_all_csv(files) ==
    [k \in KindSet |->
        IF files[k].state = "none" THEN EmptyCollection
        ELSE CASE k = "heart_rate" -> load_heart_rate_csv(files[k])
               [] k = "steps" -> load_steps_csv(files[k])
               [] k = "sleep" -> load_sleep_csv(files[k])]

-----------------------------------------------------------------------------
(* load_json.py *)

\* blob.get(key, [])
blob_get(blob, key) == IF key \in DOMAIN blob.d THEN blob.d[key] ELSE JArray(<<>>)

\* hr_list, steps_list, sleep_list: list(blob.get(..., []))
JsonLists(blob) == [k \in KindSet |-> blob_get(blob, JsonKey(k)).items]

\* mutant of rename_bpm: the rename no longer tests that heart_rate_bpm is absent
rename_bpm_overwriting(r) ==
    IF "bpm" \in DOMAIN r
    THEN [f \in (DOMAIN r \ {"bpm"}) \cup {"heart_rate_bpm"} |->
            IF f = "heart_rate_bpm" THEN r["bpm"] ELSE r[f]]
    ELSE r

\* if "bpm" in r and "heart_rate_bpm" not in r: r["heart_rate_bpm"] = r.pop("bpm")
rename_bpm(r) ==
    IF "bpm" \in DOMAIN r /\ "heart_rate_bpm" \notin DOMAIN r
    THEN [f \in (DOMAIN r \ {"bpm"}) \cup {"heart_rate_bpm"} |->
            IF f = "heart_rate_bpm" THEN r["bpm"] ELSE r[f]]
    ELSE r

\* ts = r.get("timestamp"); if ts: try r["timestamp"] = fromisoformat(ts) except: pass
parse_timestamp(r) ==
    IF "timestamp" \in DOMAIN r /\ Truthy(r["timestamp"]) /\ fromisoformat(r["timestamp"]).ok
    THEN [r EXCEPT !["timestamp"] = fromisoformat(r["timestamp"]).value]
    ELSE r

\* one pass of the three "for r in ..." loops over a record
NormalizeEntry(kind, r) ==
    IF kind = "heart_rate" THEN parse_timestamp(rename_bpm(r)) ELSE parse_timestamp(r)

\* The statements after the try block raise when the top-level value has no
\* .get (it is not an object) or when a loop meets an entry that is not a
\* dict ("bpm" in 1 is a TypeError, (1).get an AttributeError).
JsonRaises(file) ==
    IF file.state # "valid" THEN FALSE
    ELSE IF file.value.t # "object" THEN TRUE
    ELSE \E k \in KindSet : \E i \in 1..Len(JsonLists(file.value)[k]) :
            JsonLists(file.value)[k][i].t # "object"

\* hr = pd.DataFrame(hr_list) ...; the timestamp column is coerced when the
\* frame is not empty and has one
JsonFrame(dicts) ==
    LET f == FrameOfDicts(dicts)
    IN  IF ~FrameEmpty(f) /\ "timestamp" \in f.columns
        THEN DataFrame(f.columns, CoerceTimestamps(f.rows))
        ELSE f

\* load_fitness_json(path) when it returns
load_fitness_json(file) ==
    IF file.state \in {"missing", "malformed"}
    THEN [k \in KindSet |-> EmptyCollection]
    ELSE LET lists == JsonLists(file.value)
             norm == [k \in KindSet |->
                         [i \in 1..Len(lists[k]) |-> NormalizeEntry(k, lists[k][i].d)]]
         IN  [k \in KindSet |-> IF pd THEN JsonFrame(norm[k]) ELSE List(norm[k])]

-----------------------------------------------------------------------------
(* data_load_pipeline.py: _combine *)

_is_dataframe(obj) == pd /\ obj.df

\* _is_empty(obj), and the csv_empty / json_empty tests of _combine
_is_empty(obj) == IF _is_dataframe(obj) THEN FrameEmpty(obj) ELSE obj.rows = <<>>

\* mutant of merged: the second collection is left out
merged_first_only(a, b) == a

\* list(csv_df) + list(json_df), and pd.concat([a, b], ignore_index=True)
merged(a, b) == a \o b

\* mutant of drop_duplicates: nothing is dropped
drop_duplicates_none(rows) == rows

\* The "seen" loop, and DataFrame.drop_duplicates(): the first of every group
\* of equal rows is kept.  Two dicts have the same key tuple(sorted(items()))
\* exactly when they have the same keys with equal values.
drop_duplicates(rows) ==
    LET F[i \in 0..Len(rows)] ==
            IF i = 0 THEN <<>>
            ELSE IF \E j \in 1..(i - 1) : rows[j] = rows[i]
                 THEN F[i - 1]
                 ELSE Append(F[i - 1], rows[i])
    IN  F[Len(rows)]

\* r.get("timestamp")
None == [t |-> "none"]
TimestampKey(r) == IF "timestamp" \in DOMAIN r THEN r["timestamp"] ELSE None

\* str.__lt__ on the texts an unparsed timestamp can have in the model
StrRank(s) ==
    CASE s = "" -> 0
      [] s = "bad" -> 1
      [] s = "not-a-date" -> 2
      [] OTHER -> 3

\* x < y for two keys Python can compare (two datetimes, or two strs)
KeyLess(x, y) ==
    IF x.t = "datetime" THEN x.minute < y.minute ELSE StrRank(x.s) < StrRank(y.s)

\* Two keys can be compared when both are datetimes or both are strs; any
\* other comparison (a datetime with a str, anything with None) raises
\* TypeError.  The length of the longest prefix list.sort can order:
ComparablePrefix(rows) ==
    IF Len(rows) = 0 THEN 0
    ELSE IF TimestampKey(rows[1]).t \notin {"datetime", "str"} THEN 1
    ELSE LET same(i) == TimestampKey(rows[i]).t = TimestampKey(rows[1]).t
         IN  CHOOSE m \in 1..Len(rows) :
                /\ \A i \in 1..m : same(i)
                /\ m < Len(rows) => ~same(m + 1)

StrictlyDescending(rows) ==
    /\ Len(rows) >= 2
    /\ \A i \in 2..Len(rows) : KeyLess(TimestampKey(rows[i]), TimestampKey(rows[i - 1]))

\* list.sort(key=...) when no comparison raises: ascending and stable
StableSort(rows) ==
    LET Insert(sorted, x) ==
            LET k == Cardinality({j \in 1..Len(sorted) :
                                    ~KeyLess(TimestampKey(x), TimestampKey(sorted[j]))})
            IN  SubSeq(sorted, 1, k) \o <<x>> \o SubSeq(sorted, k + 1, Len(sorted))
        F[i \in 0..Len(rows)] == IF i = 0 THEN <<>> ELSE Insert(F[i - 1], rows[i])
    IN  F[Len(rows)]

\* try: deduped.sort(key=lambda r: r.get("timestamp")) except Exception: pass
\* A comparison that raises abandons the sort and leaves the list as far as
\* the sort had come.  CPython's list.sort, on a list shorter than 64, first
\* scans the leading run and then inserts the remaining items one by one
\* into the sorted prefix: when the first key that cannot be compared is met
\* during the scan (the items before it are a strictly descending run, not
\* yet reversed, or an ascending one) the list is unchanged, otherwise the
\* items before it are sorted and the rest is untouched.
SortList(rows) ==
    LET m == ComparablePrefix(rows)
        pre == SubSeq(rows, 1, m)
        rest == SubSeq(rows, m + 1, Len(rows))
    IN  IF m = Len(rows) THEN StableSort(rows)
        ELSE IF StrictlyDescending(pre) THEN rows
        ELSE StableSort(pre) \o rest

Reorderings(rows) ==
    {[i \in 1..Len(rows) |-> rows[p[i]]] : p \in Permutations(1..Len(rows))}

\* out.sort_values("timestamp").reset_index(drop=True) on a datetime column:
\* ascending, NaT rows last in their original order; the default sort kind
\* (quicksort) is not stable, so rows with equal timestamps come in any order.
sort_values(rows) ==
    LET HasTime(r) == r["timestamp"].t = "datetime"
        NoTime(r) == r["timestamp"].t # "datetime"
        Ascending(s) == \A i \in 1..(Len(s) - 1) :
                            s[i]["timestamp"].minute <= s[i + 1]["timestamp"].minute
    IN  {s \o SelectSeq(rows, NoTime) :
            s \in {q \in Reorderings(SelectSeq(rows, HasTime)) : Ascending(q)}}

\* mutant of ReturnOther: the returned copy has its repeated rows removed
ReturnOther_deduplicated(x) ==
    IF _is_dataframe(x) THEN DataFrame(x.columns, drop_duplicates(x.rows))
    ELSE IF x.rows # <<>> THEN List(drop_duplicates(x.rows)) ELSE EmptyCollection

\* the value returned when the other argument is empty: x.copy(), list(x),
\* or the empty collection of the running configuration
ReturnOther(x) ==
    IF _is_dataframe(x) THEN x
    ELSE IF x.rows # <<>> THEN List(x.rows) ELSE EmptyCollection

\* the "both have data" part for two DataFrames (lines 52-59)
CombineFrames(a, b) ==
    LET common_cols == a.columns \cup b.columns
        deduped == drop_duplicates(merged(reindex(a.rows, common_cols),
                                          reindex(b.rows, common_cols)))
    IN  IF "timestamp" \in common_cols
        THEN {DataFrame(common_cols, s) : s \in sort_values(deduped)}
        ELSE {DataFrame(common_cols, deduped)}

\* the list-of-dicts part (lines 61-77)
CombineLists(a, b) ==
    {List(SortList(drop_duplicates(merged(a.rows, b.rows))))}

\* _combine(csv_df, json_df): the set of values the call can return
_combine(a, b) ==
    IF _is_empty(a) THEN {ReturnOther(b)}
    ELSE IF _is_empty(b) THEN {ReturnOther(a)}
    ELSE IF _is_dataframe(a) /\ _is_dataframe(b) THEN CombineFrames(a, b)
    ELSE CombineLists(a, b)

-----------------------------------------------------------------------------
(* data_load_pipeline.py: load_pipeline *)

\* the values of prefer the model passes: the three of the Prefer type and
\* one that is none of them
Prefers == {"csv", "json", "both", "union"}

\* mutant of MergeKey: the preferred source is returned even when it is empty
MergeKey_empty_trumps(p, cdf, jdf) ==
    IF p = "csv" THEN {cdf}
    ELSE IF p = "json" THEN {jdf}
    ELSE _combine(cdf, jdf)

\* the body of "for key in ...": the set of values out[key] can get
MergeKey(p, cdf, jdf) ==
    IF p = "csv" THEN {IF ~_is_empty(cdf) THEN cdf ELSE jdf}
    ELSE IF p = "json" THEN {IF ~_is_empty(jdf) THEN jdf ELSE cdf}
    ELSE _combine(cdf, jdf)

NoData == [k \in KindSet |-> List(<<>>)]

Init ==
    /\ pd \in BOOLEAN
    /\ pc = "start"
    /\ prefer \in Prefers
    /\ \E focus \in KindSet :
          /\ \E f \in CsvFiles(focus) :
                csv_file = [k \in KindSet |-> IF k = focus THEN f ELSE NoFile]
          /\ json_file \in JsonFiles(focus)
    /\ csv_data = NoData
    /\ json_data = NoData
    /\ result = NoData
    /\ csv_df = List(<<>>)
    /\ json_df = List(<<>>)
    /\ out = List(<<>>)
    /\ out_swapped = List(<<>>)

\* csv_data = load_all_csv(hr_csv, steps_csv, sleep_csv)
LoadAllCsv ==
    /\ pc = "start"
    /\ csv_data' = load_all_csv(csv_file)
    /\ pc' = "csv_loaded"
    /\ UNCHANGED <<pd, prefer, csv_file, json_file, json_data, result,
                   csv_df, json_df, out, out_swapped>>

\* json_data = load_fitness_json(json_path) if json_path else {... empty ...}
LoadJson ==
    /\ pc = "csv_loaded"
    /\ ~JsonRaises(json_file)
    /\ json_data' = IF json_file.state = "none"
                    THEN [k \in KindSet |-> EmptyCollection]
                    ELSE load_fitness_json(json_file)
    /\ pc' = "json_loaded"
    /\ UNCHANGED <<pd, prefer, csv_file, json_file, csv_data, result,
                   csv_df, json_df, out, out_swapped>>

\* load_fitness_json raises: the exception leaves load_pipeline
LoadJsonRaises ==
    /\ pc = "csv_loaded"
    /\ JsonRaises(json_file)
    /\ pc' = "raised"
    /\ UNCHANGED <<pd, prefer, csv_file, json_file, csv_data, json_data, result,
                   csv_df, json_df, out, out_swapped>>

\* the loop over ("heart_rate", "steps", "sleep") and "return out"
Merge ==
    /\ pc = "json_loaded"
    /\ \E hr \in MergeKey(prefer, csv_data["heart_rate"], json_data["heart_rate"]) :
       \E st \in MergeKey(prefer, csv_data["steps"], json_data["steps"]) :
       \E sl \in MergeKey(prefer, csv_data["sleep"], json_data["sleep"]) :
          result' = [k \in KindSet |->
                        CASE k = "heart_rate" -> hr [] k = "steps" -> st [] k = "sleep" -> sl]
    /\ pc' = "done"
    /\ UNCHANGED <<pd, prefer, csv_file, json_file, csv_data, json_data,
                   csv_df, json_df, out, out_swapped>>

Next == LoadAllCsv \/ LoadJson \/ LoadJsonRaises \/ Merge

Spec == Init /\ [][Next]_vars

-----------------------------------------------------------------------------
(* _combine called directly on two collections of one kind *)

\* records as the loaders leave them (steps records)
CombineRecords ==
    { [timestamp |-> DateTime(0), steps |-> Num(5)],
      [timestamp |-> DateTime(1), steps |-> Num(3), cadence |-> Num(3)],
      [timestamp |-> DateTime(0), steps |-> Num(3)],
      [timestamp |-> Str("not-a-date"), steps |-> Num(5)],
      [timestamp |-> Str("bad"), steps |-> Num(3)],
      [steps |-> Num(5)] }

\* a collection holding the records: a list, or the frame load_fitness_json
\* builds from them
AsCollection(frame, dicts) == IF frame THEN JsonFrame(dicts) ELSE List(dicts)

InitCombine ==
    /\ pd \in BOOLEAN
    /\ pc = "ready"
    /\ prefer = "both"
    /\ csv_file = [k \in KindSet |-> NoFile]
    /\ json_file = NoJson
    /\ csv_data = NoData
    /\ json_data = NoData
    /\ result = NoData
    /\ \E frame \in (IF pd THEN BOOLEAN ELSE {FALSE}) :
          /\ \E a \in SeqsUpTo(CombineRecords, MaxRecords) : csv_df = AsCollection(frame, a)
          /\ \E b \in SeqsUpTo(CombineRecords, MaxRecords) : json_df = AsCollection(frame, b)
    /\ out = List(<<>>)
    /\ out_swapped = List(<<>>)

\* out = _combine(csv_df, json_df)
Combine ==
    /\ pc = "ready"
    /\ out' \in _combine(csv_df, json_df)
    /\ pc' = "combined"
    /\ UNCHANGED <<pd, prefer, csv_file, json_file, csv_data, json_data, result,
                   csv_df, json_df, out_swapped>>

\* out_swapped = _combine(json_df, csv_df)
CombineSwapped ==
    /\ pc = "combined"
    /\ out_swapped' \in _combine(json_df, csv_df)
    /\ pc' = "both"
    /\ UNCHANGED <<pd, prefer, csv_file, json_file, csv_data, json_data, result,
                   csv_df, json_df, out>>

NextCombine == Combine \/ CombineSwapped

SpecCombine == InitCombine /\ [][NextCombine]_vars

-----------------------------------------------------------------------------
(* Properties of load_pipeline and the loaders (checked under Spec) *)

Loaded == pc \in {"json_loaded", "done"}

\* the set of records of a sequence
Range(rows) == {rows[i] : i \in 1..Len(rows)}

\* C1: when load_pipeline returns, for every kind, prefer="csv" gives the CSV
\* collection if it holds a record and the JSON collection otherwise, and
\* prefer="json" gives the JSON collection if it holds a record and the CSV
\* collection otherwise: an empty preferred source never forces an empty
\* result while the other source has records.
C1_PreferFallsBack ==
    pc = "done" =>
        \A k \in KindSet :
            /\ prefer = "csv" =>
                  /\ Len(csv_data[k].rows) > 0 => result[k] = csv_data[k]
                  /\ Len(csv_data[k].rows) = 0 => result[k] = json_data[k]
            /\ prefer = "json" =>
                  /\ Len(json_data[k].rows) > 0 => result[k] = json_data[k]
                  /\ Len(json_data[k].rows) = 0 => result[k] = csv_data[k]

\* C1 witness: the heart-rate CSV is absent, the JSON holds heart-rate
\* records, and prefer="csv" has returned the JSON records
C1_Witness ==
    /\ pc = "done"
    /\ prefer = "csv"
    /\ csv_file["heart_rate"].state = "missing"
    /\ Len(json_data["heart_rate"].rows) >= 2
    /\ result["heart_rate"] = json_data["heart_rate"]

\* the file states C2 is about: nothing to read, or content not of the
\* expected shape
JsonUnusable ==
    \/ json_file.state \in {"missing", "malformed"}
    \/ /\ json_file.state = "valid"
       /\ json_file.value.t # "object"
    \/ /\ json_file.state = "valid"
       /\ json_file.value.t = "object"
       /\ \E k \in KindSet : \E i \in 1..Len(JsonLists(json_file.value)[k]) :
              JsonLists(json_file.value)[k][i].t # "object"

\* C2: the loaders never raise because of file content or absence: a
\* missing or unparsable CSV gives an empty collection; a missing or
\* unparsable JSON file, a JSON value that is not an object and an array
\* entry that is not a record give empty collections for all three kinds; an
\* object lacking an array gives an empty collection for that kind.
C2_LoadersNeverRaise ==
    /\ pc # "raised"
    /\ pc # "start" =>
          \A k \in KindSet :
              csv_file[k].state \in {"missing", "malformed"} => csv_data[k].rows = <<>>
    /\ (pc \in {"json_loaded", "done", "raised"} /\ JsonUnusable) =>
          /\ Loaded
          /\ \A k \in KindSet : json_data[k].rows = <<>>
    /\ (Loaded /\ json_file.state = "valid" /\ json_file.value.t = "object") =>
          \A k \in KindSet :
              JsonKey(k) \notin DOMAIN json_file.value.d => json_data[k].rows = <<>>

\* raw timestamp text that is present, non-empty and not an ISO date-time
Unparsable(v) == v.t = "str" /\ v.s # "" /\ IsoMinute(v.s) < 0

\* C3: every raw record is kept, and a timestamp that is present, non-empty
\* and unparsable is left equal to the raw text, for CSV and JSON alike.
C3_UnparsableTimestampKept ==
    /\ pc # "start" =>
          \A k \in KindSet :
              csv_file[k].state = "rows" =>
                  /\ Len(csv_data[k].rows) = Len(csv_file[k].rows)
                  /\ \A i \in 1..Len(csv_file[k].rows) :
                        Unparsable(Str(csv_file[k].rows[i]["timestamp"])) =>
                            csv_data[k].rows[i]["timestamp"] =
                                Str(csv_file[k].rows[i]["timestamp"])
    /\ Loaded /\ json_file.state = "valid" =>
          \A k \in KindSet :
              LET entries == JsonLists(json_file.value)[k]
              IN  /\ Len(json_data[k].rows) = Len(entries)
                  /\ \A i \in 1..Len(entries) :
                        ("timestamp" \in DOMAIN entries[i].d
                            /\ Unparsable(entries[i].d["timestamp"])) =>
                                json_data[k].rows[i]["timestamp"] = entries[i].d["timestamp"]

\* a field's value, with "absent" and pandas' NaN fill both read as unset
FieldValue(r, f) == IF f \in DOMAIN r /\ r[f] # NaN THEN r[f] ELSE None

\* C7: a JSON heart-rate record gets heart_rate_bpm from bpm, and loses bpm,
\* exactly when it has bpm and no heart_rate_bpm; an existing heart_rate_bpm
\* is not overwritten; every other field but the timestamp keeps its value;
\* steps and sleep records keep all their fields.
C7_RenameBpm ==
    (Loaded /\ json_file.state = "valid") =>
        \A k \in KindSet :
            LET entries == JsonLists(json_file.value)[k]
            IN  \A i \in 1..Len(entries) :
                    LET raw == entries[i].d
                        got == json_data[k].rows[i]
                        renamed == /\ k = "heart_rate"
                                   /\ "bpm" \in DOMAIN raw
                                   /\ "heart_rate_bpm" \notin DOMAIN raw
                    IN  /\ renamed =>
                              /\ FieldValue(got, "heart_rate_bpm") = raw["bpm"]
                              /\ FieldValue(got, "bpm") = None
                        /\ \A f \in (DOMAIN raw \cup DOMAIN got) \ {"timestamp"} :
                              (~renamed \/ f \notin {"bpm", "heart_rate_bpm"}) =>
                                  FieldValue(got, f) = FieldValue(raw, f)

\* C7 witness: {timestamp, bpm: 72, confidence: 0.9} was loaded as
\* {timestamp, heart_rate_bpm: 72, confidence: 0.9}, and a record that had
\* both keys kept both
C7_Witness ==
    /\ Loaded
    /\ json_file.state = "valid"
    /\ json_file.value.t = "object"
    /\ Len(JsonLists(json_file.value)["heart_rate"]) = 2
    /\ JsonLists(json_file.value)["heart_rate"][1].d =
          [timestamp |-> Str("2024-01-01T08:00:00"), bpm |-> Num(72), confidence |-> Num(9)]
    /\ "heart_rate_bpm" \in DOMAIN JsonLists(json_file.value)["heart_rate"][2].d
    /\ FieldValue(json_data["heart_rate"].rows[1], "heart_rate_bpm") = Num(72)
    /\ FieldValue(json_data["heart_rate"].rows[1], "confidence") = Num(9)
    /\ FieldValue(json_data["heart_rate"].rows[1], "bpm") = None
    /\ json_data["heart_rate"].rows[1]["timestamp"] = DateTime(0)
    /\ FieldValue(json_data["heart_rate"].rows[2], "bpm") = Num(65)

\* C8: a prefer value other than "csv", "json" and "both" ends the call in an
\* error: load_pipeline never returns a merged result for it.
C8_InvalidPolicyFails ==
    prefer \notin {"csv", "json", "both"} => pc # "done"

-----------------------------------------------------------------------------
(* Properties of _combine (checked under SpecCombine) *)

Combined == pc \in {"combined", "both"}

NoDuplicates(rows) ==
    \A i \in 1..Len(rows) : \A j \in 1..Len(rows) : rows[i] = rows[j] => i = j

\* C4: the collection the union returns holds no two equal records, whatever
\* the inputs (repeated records inside an input, one input empty).
C4_NoDuplicatesAfterUnion ==
    Combined => NoDuplicates(out.rows)

\* C5: _combine(A, B) and _combine(B, A) hold the same set of records.
C5_UnionCommutesOnContent ==
    pc = "both" => Range(out.rows) = Range(out_swapped.rows)

\* C5 witness: two non-empty inputs with different records were combined in
\* both orders, and the two results differ in order
C5_Witness ==
    /\ pc = "both"
    /\ csv_df.rows # <<>>
    /\ json_df.rows # <<>>
    /\ Range(csv_df.rows) \cap Range(json_df.rows) = {}
    /\ out.rows # out_swapped.rows
    /\ Cardinality(Range(out.rows)) >= 3

\* C6: _combine(A, A) holds exactly the distinct records of A, each once.
C6_UnionIdempotent ==
    (Combined /\ csv_df = json_df) =>
        /\ Range(out.rows) = Range(csv_df.rows)
        /\ NoDuplicates(out.rows)

\* C6 witness: A holds the same record twice next to another one, and
\* _combine(A, A) returned two records
C6_Witness ==
    /\ Combined
    /\ csv_df = json_df
    /\ Len(csv_df.rows) > Cardinality(Range(csv_df.rows))
    /\ Len(out.rows) = Cardinality(Range(csv_df.rows))
    /\ Len(out.rows) >= 1

\* the inputs as the union sees them: a frame's rows carry every column of
\* either frame
UnionInput(c) ==
    IF c.df THEN reindex(c.rows, csv_df.columns \cup json_df.columns) ELSE c.rows

\* the place of a record's first occurrence
FirstIndex(rows, r) == CHOOSE i \in 1..Len(rows) : rows[i] = r /\ \A j \in 1..(i - 1) : rows[j] # r

\* C9: with two non-empty inputs whose records have a timestamp, the union
\* returns the deduplicated concatenation (A then B) in ascending timestamp
\* order, stable: adjacent records with parsed timestamps are in order, and
\* records with equal timestamps, or with unparsable ones, keep the order
\* they had after concatenation.
C9_UnionSortedStable ==
    (/\ Combined
     /\ csv_df.rows # <<>>
     /\ json_df.rows # <<>>
     /\ \A r \in Range(csv_df.rows) \cup Range(json_df.rows) : "timestamp" \in DOMAIN r) =>
        LET concat == UnionInput(csv_df) \o UnionInput(json_df)
            Parsed(r) == r["timestamp"].t = "datetime"
        IN  /\ Range(out.rows) = Range(concat)
            /\ NoDuplicates(out.rows)
            /\ \A i \in 1..(Len(out.rows) - 1) :
                  (Parsed(out.rows[i]) /\ Parsed(out.rows[i + 1])) =>
                      out.rows[i]["timestamp"].minute <= out.rows[i + 1]["timestamp"].minute
            /\ \A i \in 1..Len(out.rows) : \A j \in (i + 1)..Len(out.rows) :
                  (\/ out.rows[i]["timestamp"] = out.rows[j]["timestamp"]
                   \/ ~Parsed(out.rows[i]) /\ ~Parsed(out.rows[j])) =>
                      FirstIndex(concat, out.rows[i]) < FirstIndex(concat, out.rows[j])

FieldSet(c) ==
    IF c.df THEN c.columns ELSE UNION {DOMAIN r : r \in Range(c.rows)}

\* an unset field: NaN / NaT in a frame, None in a record
Unset(v) == v = NaN \/ v = None

\* record o is record r brought to the field set: r's own values, and every
\* other field unset
Reconciled(o, r, fields) ==
    /\ DOMAIN o = fields
    /\ \A f \in fields : IF f \in DOMAIN r THEN o[f] = r[f] ELSE Unset(o[f])

\* C11: when the union merges two non-empty inputs whose field sets differ,
\* every record of the result has the same field set, the union of the
\* field sets of the two inputs; a record of an input that lacked a field
\* is in the result with that field unset, and no record is missing. This
\* is so for frames and for lists of records.
C11_UnionFieldSets ==
    (/\ Combined
     /\ csv_df.rows # <<>>
     /\ json_df.rows # <<>>
     /\ FieldSet(csv_df) # FieldSet(json_df)) =>
        LET fields == FieldSet(csv_df) \cup FieldSet(json_df)
        IN  /\ \A o \in Range(out.rows) : DOMAIN o = fields
            /\ \A r \in Range(csv_df.rows) \cup Range(json_df.rows) :
                  \E o \in Range(out.rows) : Reconciled(o, r, fields)

====
